---- MODULE Spec2Model ----
(***************************************************************************)
(* Model of the Snowflake voice assistant: the FAQ agent of                *)
(* snowflake_agent.py and the Streamlit page of new-app.py.                *)
(*                                                                         *)
(* Text is a sequence of tokens (strings); the token " " is whitespace.    *)
(* A Python value that may be None is a record with an isNone field.       *)
(***************************************************************************)
EXTENDS Naturals, Sequences, FiniteSets, TLC

VARIABLES
    environ,        \* os.environ, restricted to CEREBRAS_API_KEY
    faqFile,        \* FAQ.md on disk: [exists, text]
    faqAtStart,     \* history: FAQ.md as it was when the module was imported
    FAQ_CONTENT,    \* snowflake_agent.FAQ_CONTENT
    SYSTEM_PROMPT,  \* snowflake_agent.SYSTEM_PROMPT
    ctorLog,        \* the last SnowflakeAgent(...) call: argument and outcome
    clients,        \* api keys a Cerebras client was created with
    agents,         \* the SnowflakeAgent objects that exist
    lastCall,       \* the last answer() call of a caller of the module: the
                    \* question, FAQ.md as it was then, the request sent,
                    \* the outcome of the remote call and the result
    agentCache,     \* st.cache_resource of get_snowflake_agent
    tempWav,        \* the file temp.wav in the working directory
    audio,          \* per session: the audiorecorder widget's value
    session_state,  \* per session: st.session_state
    question,       \* per session: the question of the agent call in flight
    pc              \* per session: where its script run stands

vars == <<environ, faqFile, faqAtStart, FAQ_CONTENT, SYSTEM_PROMPT, ctorLog,
          clients, agents, lastCall, agentCache, tempWav, audio,
          session_state, question, pc>>

agentVars == <<ctorLog, clients, agents, lastCall>>
appVars == <<agentCache, tempWav, audio, session_state, question, pc>>
moduleVars == <<environ, faqAtStart, FAQ_CONTENT, SYSTEM_PROMPT>>

----------------------------------------------------------------------------
(* Bounds and input sets *)

MaxSegs == 1

Sessions == {"s1", "s2"}

KEY == "CEREBRAS_API_KEY"

None == [isNone |-> TRUE]
Str(t) == [isNone |-> FALSE, str |-> t]

ApiKeys == {None, Str(<<>>), Str(<<"key">>)}

FaqTexts == {<<"faq v1">>, <<"faq v2">>}

FaqFiles == {[exists |-> FALSE, text |-> <<>>]}
            \cup {[exists |-> TRUE, text |-> t] : t \in FaqTexts}

Environs == [{KEY} -> ApiKeys]

LibQuestions == {<<"q1">>, <<"q2">>}

(* What a session's user can record: a clip of up to MaxSegs spoken        *)
(* segments (none: silence). A session's words carry its name.             *)
Clips(s) == {[len |-> n + 1, segs |-> [i \in 1..n |-> <<s>>]] : n \in 0..MaxSegs}

(* What a session's user can type into a text field. *)
Typed(s) == {<<s, "typed">>}

ErrDetails == {<<"connection refused">>, <<>>}

----------------------------------------------------------------------------
(* Python string helpers *)

Truthy(v) == ~v.isNone /\ v.str # <<>>

py_or(a, b) == IF Truthy(a) THEN a ELSE b

IsSpace(c) == c = " "

RECURSIVE lstrip(_)
lstrip(t) == IF t # <<>> /\ IsSpace(Head(t)) THEN lstrip(Tail(t)) ELSE t

RECURSIVE rstrip(_)
rstrip(t) == IF t # <<>> /\ IsSpace(t[Len(t)])
             THEN rstrip(SubSeq(t, 1, Len(t) - 1))
             ELSE t

strip(t) == rstrip(lstrip(t))

RECURSIVE join(_, _)
join(sep, parts) ==
    IF parts = <<>> THEN <<>>
    ELSE IF Len(parts) = 1 THEN parts[1]
    ELSE parts[1] \o sep \o join(sep, Tail(parts))

(* os.environ.get(name): None stands for a variable that is not set. *)
environ_get(env, name) == env[name]

----------------------------------------------------------------------------
(* snowflake_agent.py *)

load_faq_content(file) == IF file.exists THEN file.text ELSE <<>>

BuildSystemPrompt(faq) ==
    <<"You are a helpful Snowflake expert assistant. [...] knowledge base: ---">>
    \o faq \o <<"--- Instructions: [...]">>

MODEL == "llama-3.3-70b"

FALLBACK == <<"I apologize, but I couldn't generate a response. Please try again.">>

ErrPrefix == <<"Error communicating with the AI service: ">>

NoneStripDetail == <<"'NoneType' object has no attribute 'strip'">>

Return(v) == [kind |-> "return", val |-> v]
Raise(d) == [kind |-> "raise", val |-> d]

(* SnowflakeAgent.__init__ with the check "is None" in place of "not":     *)
(* an empty key passes.                                                    *)
SnowflakeAgent_init_IsNone(api_key, env) ==
    LET key == py_or(api_key, environ_get(env, KEY)) IN
    IF key.isNone
    THEN [raised |-> TRUE, exc |-> "ValueError", client |-> {}, agent |-> {}]
    ELSE [raised |-> FALSE, exc |-> "", client |-> {key},
          agent |-> {[api_key |-> key, model |-> MODEL]}]

(* SnowflakeAgent.__init__: the result of one construction: whether it     *)
(* raised ValueError, the client it created and the agent it built.        *)
SnowflakeAgent_init(api_key, env) ==
    LET key == py_or(api_key, environ_get(env, KEY)) IN
    IF ~Truthy(key)
    THEN [raised |-> TRUE, exc |-> "ValueError", client |-> {}, agent |-> {}]
    ELSE [raised |-> FALSE, exc |-> "", client |-> {key},
          agent |-> {[api_key |-> key, model |-> MODEL]}]

(* What client.chat.completions.create can do: raise, or return a response *)
(* without a choices attribute, with no choice, or with one choice whose   *)
(* message is None or carries a content that is None or a string.          *)
Response(hasChoices, choices) ==
    [kind |-> "response", hasChoices |-> hasChoices, choices |-> choices]

Message(content) == [isNone |-> FALSE, content |-> content]

Contents(q) == {<<>>, <<" ">>, <<" ">> \o q \o <<" ">>}

Outcomes(q) ==
    {[kind |-> "raise", detail |-> d] : d \in ErrDetails}
    \cup {Response(FALSE, <<>>), Response(TRUE, <<>>),
          Response(TRUE, <<[message |-> None]>>),
          Response(TRUE, <<[message |-> Message(None)]>>)}
    \cup {Response(TRUE, <<[message |-> Message(Str(c))]>>) : c \in Contents(q)}

(* The system prompt a call sends, re-read from disk at every call.        *)
PromptForCall_Reload == BuildSystemPrompt(load_faq_content(faqFile))

(* The system prompt a call sends: the module constant.                    *)
PromptForCall == SYSTEM_PROMPT

AnswerMessages(q) ==
    <<[role |-> "system", content |-> PromptForCall],
      [role |-> "user", content |-> q]>>

(* The try block of SnowflakeAgent.answer. *)
answer_try(outcome) ==
    IF outcome.kind = "raise" THEN Raise(outcome.detail)
    ELSE IF \/ ~outcome.hasChoices
            \/ Len(outcome.choices) = 0
            \/ outcome.choices[1].message.isNone
         THEN Return(FALLBACK)
    ELSE IF outcome.choices[1].message.content.isNone
         THEN Raise(NoneStripDetail)
    ELSE Return(strip(outcome.choices[1].message.content.str))

(* SnowflakeAgent.answer without its except clause. *)
answer_NoCatch(outcome) == answer_try(outcome)

(* SnowflakeAgent.answer: what it hands its caller for a given outcome of  *)
(* the chat-completion call.                                               *)
answer(outcome) ==
    LET r == answer_try(outcome) IN
    IF r.kind = "raise" THEN Return(ErrPrefix \o r.val) ELSE r

(* get_snowflake_answer: construct an agent, then ask it. *)
get_snowflake_answer(api_key, env, outcome) ==
    LET c == SnowflakeAgent_init(api_key, env) IN
    IF c.raised THEN [ctor |-> c, result |-> Raise(<<c.exc>>)]
    ELSE [ctor |-> c, result |-> answer(outcome)]

----------------------------------------------------------------------------
(* new-app.py: cached resources *)

(* The body of get_snowflake_agent, run when the cache holds no agent. *)
get_snowflake_agent_body(env) ==
    LET api_key == environ_get(env, KEY) IN
    IF ~Truthy(api_key)
    THEN [raised |-> TRUE, exc |-> "RuntimeError", client |-> {}, agent |-> {},
          ctor |-> {}]
    ELSE LET c == SnowflakeAgent_init(api_key, env) IN
         [raised |-> c.raised, exc |-> c.exc, client |-> c.client,
          agent |-> c.agent,
          ctor |-> {[called |-> TRUE, api_key |-> api_key, raised |-> c.raised]}]

(* get_snowflake_agent under st.cache_resource: a cached agent is handed   *)
(* out again; a call that raises caches nothing.                           *)
get_snowflake_agent(cache, env) ==
    IF cache # {}
    THEN [raised |-> FALSE, exc |-> "", client |-> {}, agent |-> cache, ctor |-> {}]
    ELSE get_snowflake_agent_body(env)

----------------------------------------------------------------------------
(* Initial state: the module snowflake_agent has been imported (lines      *)
(* 13-38 have run), no agent exists, no session has rendered its page.     *)

NoCall == [made |-> FALSE]
NoCtor == [called |-> FALSE, api_key |-> None, raised |-> FALSE]
NoAudio == [len |-> 0, segs |-> <<>>]
NoFile == [state |-> "absent", clip |-> NoAudio]

Init ==
    /\ environ \in Environs
    /\ faqFile \in FaqFiles
    /\ faqAtStart = faqFile
    /\ FAQ_CONTENT = load_faq_content(faqFile)
    /\ SYSTEM_PROMPT = BuildSystemPrompt(load_faq_content(faqFile))
    /\ ctorLog = NoCtor
    /\ clients = {}
    /\ agents = {}
    /\ lastCall = NoCall
    /\ agentCache = {}
    /\ tempWav = NoFile
    /\ audio = [s \in Sessions |-> NoAudio]
    /\ session_state = [s \in Sessions |-> <<>>]
    /\ question = [s \in Sessions |-> <<>>]
    /\ pc = [s \in Sessions |-> "idle"]

----------------------------------------------------------------------------
(* Callers of the agent module *)

(* FAQ.md is edited, created or removed while the process runs. *)
EditFaq(f) ==
    /\ f # faqFile
    /\ faqFile' = f
    /\ UNCHANGED <<moduleVars, agentVars, appVars>>

(* SnowflakeAgent(api_key=api_key) *)
NewAgent(api_key) ==
    LET c == SnowflakeAgent_init(api_key, environ) IN
    /\ ctorLog' = [called |-> TRUE, api_key |-> api_key, raised |-> c.raised]
    /\ clients' = clients \cup c.client
    /\ agents' = agents \cup c.agent
    /\ UNCHANGED <<moduleVars, faqFile, lastCall, appVars>>

(* agent.answer(q) on an agent that exists; o is what the chat-completion  *)
(* call does.                                                              *)
Answer(a, q, o) ==
    /\ a \in agents
    /\ lastCall' = [made |-> TRUE, question |-> q, faqThen |-> faqFile,
                    messages |-> AnswerMessages(q),
                    outcome |-> o, result |-> answer(o)]
    /\ UNCHANGED <<moduleVars, faqFile, ctorLog, clients, agents, appVars>>

(* get_snowflake_answer(q, api_key) *)
GetSnowflakeAnswer(q, api_key, o) ==
    LET r == get_snowflake_answer(api_key, environ, o) IN
    /\ ctorLog' = [called |-> TRUE, api_key |-> api_key, raised |-> r.ctor.raised]
    /\ clients' = clients \cup r.ctor.client
    /\ agents' = agents \cup r.ctor.agent
    /\ lastCall' = IF r.ctor.raised THEN lastCall
                   ELSE [made |-> TRUE, question |-> q, faqThen |-> faqFile,
                         messages |-> AnswerMessages(q),
                         outcome |-> o, result |-> r.result]
    /\ UNCHANGED <<moduleVars, faqFile, appVars>>

(* get_snowflake_agent() *)
GetSnowflakeAgent ==
    LET g == get_snowflake_agent(agentCache, environ) IN
    /\ agentCache' = IF g.raised THEN agentCache ELSE g.agent
    /\ ctorLog' = IF g.ctor = {} THEN ctorLog ELSE CHOOSE l \in g.ctor : TRUE
    /\ clients' = clients \cup g.client
    /\ agents' = agents \cup g.agent
    /\ UNCHANGED <<moduleVars, faqFile, lastCall, tempWav, audio,
                   session_state, question, pc>>

NextAgent ==
    \/ \E f \in FaqFiles : EditFaq(f)
    \/ \E k \in ApiKeys : NewAgent(k)
    \/ \E a \in agents, q \in LibQuestions : \E o \in Outcomes(q) : Answer(a, q, o)
    \/ \E q \in LibQuestions, k \in ApiKeys : \E o \in Outcomes(q) :
          GetSnowflakeAnswer(q, k, o)
    \/ GetSnowflakeAgent

SpecAgent == Init /\ [][NextAgent]_vars

----------------------------------------------------------------------------
(* new-app.py: the page script, one run per user interaction *)

Keys == {"transcript", "answer"}

(* Lines 43-46: the keys a session lacks are set to "". *)
SessionInit(ss) == [k \in Keys |-> IF k \in DOMAIN ss THEN ss[k] ELSE <<>>]

(* A session whose page has been rendered, so that its widgets exist. *)
Rendered(s) == DOMAIN session_state[s] = Keys

(* A session with no script run under way. *)
AtRest(s) == pc[s] \in {"idle", "handled"}

(* model.transcribe(path) and line 73: the text of the file's segments,    *)
(* joined by single spaces.                                                *)
TranscriptText(file) == join(<<" ">>, file.clip.segs)

(* Lines 75-76 without the reset of the answer. *)
OnTranscribed_KeepAnswer(ss, text) == [ss EXCEPT !["transcript"] = text]

(* Lines 75-76. *)
OnTranscribed(ss, text) == [ss EXCEPT !["transcript"] = text, !["answer"] = <<>>]

(* Lines 99 and 120. *)
OnAnswer(ss, text) == [ss EXCEPT !["answer"] = text]

(* A script run in which no button is pressed: the first render, a new     *)
(* recording (a of the recorder widget), a keystroke.                      *)
PageRun(s, a) ==
    /\ AtRest(s)
    /\ audio' = [audio EXCEPT ![s] = a]
    /\ session_state' = [session_state EXCEPT ![s] = SessionInit(@)]
    /\ pc' = [pc EXCEPT ![s] = "idle"]
    /\ UNCHANGED <<moduleVars, faqFile, agentVars, agentCache, tempWav, question>>

(* "Transcribe with Whisper" pressed, lines 58-66: the recording is        *)
(* exported and temp.wav is opened for writing, which empties it.          *)
TranscribeOpen(s) ==
    /\ AtRest(s) /\ Rendered(s)
    /\ audio[s].len > 0
    /\ session_state' = [session_state EXCEPT ![s] = SessionInit(@)]
    /\ tempWav' = [state |-> "empty", clip |-> NoAudio]
    /\ pc' = [pc EXCEPT ![s] = "tr_write"]
    /\ UNCHANGED <<moduleVars, faqFile, agentVars, agentCache, audio, question>>

(* Lines 66-67: the bytes are written and the file is closed. *)
TranscribeWrite(s) ==
    /\ pc[s] = "tr_write"
    /\ tempWav' = [state |-> "wav", clip |-> audio[s]]
    /\ pc' = [pc EXCEPT ![s] = "tr_run"]
    /\ UNCHANGED <<moduleVars, faqFile, agentVars, agentCache, audio,
                   session_state, question>>

(* Lines 70-76: Whisper reads temp.wav as it is now. A file that holds no  *)
(* audio makes transcribe raise, which nothing catches: the run ends there *)
(* and the session is left as it was.                                      *)
TranscribeRun(s) ==
    /\ pc[s] = "tr_run"
    /\ IF tempWav.state # "wav"
       THEN /\ pc' = [pc EXCEPT ![s] = "idle"]
            /\ UNCHANGED session_state
       ELSE /\ session_state' = [session_state EXCEPT
                                   ![s] = OnTranscribed(@, TranscriptText(tempWav))]
            /\ pc' = [pc EXCEPT ![s] = "idle"]
    /\ UNCHANGED <<moduleVars, faqFile, agentVars, agentCache, tempWav, audio,
                   question>>

(* Lines 97 and 118: the handler gets the agent; an exception is caught by *)
(* the handler's except clause and shown with st.error.                    *)
GetAgentThenCall(s, q, callPc) ==
    LET g == get_snowflake_agent(agentCache, environ) IN
    /\ session_state' = [session_state EXCEPT ![s] = SessionInit(@)]
    /\ IF g.raised
       THEN /\ pc' = [pc EXCEPT ![s] = "handled"]
            /\ UNCHANGED <<agentCache, ctorLog, clients, agents, question>>
       ELSE /\ agentCache' = g.agent
            /\ ctorLog' = IF g.ctor = {} THEN ctorLog ELSE CHOOSE l \in g.ctor : TRUE
            /\ clients' = clients \cup g.client
            /\ agents' = agents \cup g.agent
            /\ question' = [question EXCEPT ![s] = q]
            /\ pc' = [pc EXCEPT ![s] = callPc]
    /\ UNCHANGED <<moduleVars, faqFile, lastCall, tempWav, audio>>

(* Lines 98-101 and 119-123: the chat-completion call ends with outcome o; *)
(* what answer returns is stored, what it raises is caught and shown.      *)
CallReturns(s, o) ==
    LET r == answer(o) IN
    /\ IF r.kind = "raise"
       THEN /\ pc' = [pc EXCEPT ![s] = "handled"]
            /\ UNCHANGED session_state
       ELSE /\ session_state' = [session_state EXCEPT ![s] = OnAnswer(@, r.val)]
            /\ pc' = [pc EXCEPT ![s] = "idle"]
    /\ question' = [question EXCEPT ![s] = <<>>]
    /\ UNCHANGED <<moduleVars, faqFile, agentVars, agentCache, tempWav, audio>>

(* "Ask Snowflake Agent" pressed (lines 81-97), with the text area holding *)
(* the transcript or what the user made of it.                             *)
AskClick(s) ==
    /\ AtRest(s) /\ Rendered(s)
    /\ session_state[s]["transcript"] # <<>>
    /\ \E edited_transcript \in {session_state[s]["transcript"]} \cup Typed(s) :
          GetAgentThenCall(s, edited_transcript, "ask_call")

(* Lines 98-99. *)
AskReturn(s) ==
    /\ pc[s] = "ask_call"
    /\ \E o \in Outcomes(question[s]) : CallReturns(s, o)

(* "Ask Follow-up" pressed with followup typed (lines 106-118). *)
FollowupClick(s) ==
    /\ AtRest(s) /\ Rendered(s)
    /\ session_state[s]["answer"] # <<>>
    /\ \E followup \in Typed(s) :
          /\ followup # <<>>
          /\ GetAgentThenCall(s, followup, "fu_call")

(* Lines 119-121; st.rerun() starts a run in which nothing is pressed. *)
FollowupReturn(s) ==
    /\ pc[s] = "fu_call"
    /\ \E o \in Outcomes(question[s]) : CallReturns(s, o)

Next ==
    \/ \E s \in Sessions : \E a \in Clips(s) \cup {NoAudio} : PageRun(s, a)
    \/ \E s \in Sessions : TranscribeOpen(s)
    \/ \E s \in Sessions : TranscribeWrite(s)
    \/ \E s \in Sessions : TranscribeRun(s)
    \/ \E s \in Sessions : AskClick(s)
    \/ \E s \in Sessions : AskReturn(s)
    \/ \E s \in Sessions : FollowupClick(s)
    \/ \E s \in Sessions : FollowupReturn(s)

(* The page never reads FAQ.md: its behaviours start with the document as  *)
(* shipped.                                                                *)
InitPage == Init /\ faqFile = [exists |-> TRUE, text |-> <<"faq v1">>]

Spec == InitPage /\ [][Next]_vars

----------------------------------------------------------------------------
(* Properties of the agent module, checked under SpecAgent *)

(* The chat-completion call returned a response whose reading raises: a    *)
(* first choice with a message whose content is None.                      *)
ReadingRaises(o) ==
    /\ o.kind = "response" /\ o.hasChoices /\ Len(o.choices) > 0
    /\ ~o.choices[1].message.isNone
    /\ o.choices[1].message.content.isNone

(* C1: answer always returns a string; an exception raised by the call or  *)
(* while its response is read comes back as the error prefix followed by   *)
(* the exception's text.                                                   *)
C1_AnswerNeverRaises ==
    lastCall.made =>
        /\ lastCall.result.kind = "return"
        /\ lastCall.outcome.kind = "raise" =>
              lastCall.result.val = ErrPrefix \o lastCall.outcome.detail
        /\ ReadingRaises(lastCall.outcome) =>
              lastCall.result.val = ErrPrefix \o NoneStripDetail

C1_Witness ==
    /\ lastCall.made
    /\ lastCall.outcome.kind = "raise"
    /\ lastCall.result = Return(ErrPrefix \o <<"connection refused">>)

(* C2: a construction with no non-empty key (argument None or empty,       *)
(* variable unset or empty) raises; no client is ever created with an      *)
(* empty key, no agent holds one, and without a key in the environment the *)
(* cache of get_snowflake_agent stays empty.                               *)
C2_NoKeyNoAgent ==
    /\ (ctorLog.called /\ ~Truthy(ctorLog.api_key) /\ ~Truthy(environ[KEY]))
          => ctorLog.raised
    /\ \A k \in clients : Truthy(k)
    /\ \A a \in agents : Truthy(a.api_key)
    /\ clients = {a.api_key : a \in agents}
    /\ agentCache \subseteq agents
    /\ ~Truthy(environ[KEY]) => agentCache = {}

C2_Witness ==
    /\ ctorLog.called /\ ~Truthy(ctorLog.api_key) /\ ~Truthy(environ[KEY])
    /\ ctorLog.raised
    /\ clients = {} /\ agents = {} /\ agentCache = {}
    /\ ~lastCall.made

(* The response holds no choice, or a first choice whose message is        *)
(* missing or has no text.                                                 *)
NoChoicesOrEmptyMessage(o) ==
    /\ o.kind = "response"
    /\ \/ ~o.hasChoices
       \/ Len(o.choices) = 0
       \/ o.choices[1].message.isNone
       \/ o.choices[1].message.content.isNone
       \/ o.choices[1].message.content.str = <<>>

(* C4: a successful call that returns no choices or an empty message makes *)
(* answer return the fallback string.                                      *)
C4_EmptyResponseGivesFallback ==
    (lastCall.made /\ NoChoicesOrEmptyMessage(lastCall.outcome))
        => lastCall.result = Return(FALLBACK)

(* C8: every call sends two messages: the system prompt built from FAQ.md  *)
(* as it was at import (empty if it was absent), and the question.         *)
C8_RequestIsPromptAndQuestion ==
    lastCall.made =>
        lastCall.messages =
            <<[role |-> "system",
               content |-> BuildSystemPrompt(load_faq_content(faqAtStart))],
              [role |-> "user", content |-> lastCall.question]>>

(* A call made when FAQ.md no longer was what it was at import. *)
C8_Witness ==
    /\ lastCall.made
    /\ faqAtStart.exists
    /\ lastCall.faqThen # faqAtStart

----------------------------------------------------------------------------
(* Properties of the page, checked under Spec *)

(* The session states of the design: Idle, Transcribed, Answered. *)
IdleState(s) ==
    /\ Rendered(s)
    /\ session_state[s]["transcript"] = <<>> /\ session_state[s]["answer"] = <<>>

Transcribed(s) ==
    /\ Rendered(s)
    /\ session_state[s]["transcript"] # <<>> /\ session_state[s]["answer"] = <<>>

Answered(s) ==
    /\ Rendered(s)
    /\ session_state[s]["transcript"] # <<>> /\ session_state[s]["answer"] # <<>>

(* A step in which session s completes a transcription. *)
TranscriptionCompletes(s) ==
    pc[s] = "tr_run" /\ tempWav.state = "wav" /\ pc'[s] = "idle"

(* C3: no word of another session appears in a session's transcript or     *)
(* answer.                                                                 *)
C3_SessionsIsolated ==
    \A s \in Sessions : \A k \in DOMAIN session_state[s] :
        \A i \in DOMAIN session_state[s][k] :
            session_state[s][k][i] \notin Sessions \ {s}

(* C5 as stated: a completed transcription stores the transcribed text,    *)
(* empties the answer and leaves the session in Transcribed.               *)
C5_TranscriptionEntersTranscribed ==
    [][\A s \in Sessions : TranscriptionCompletes(s) =>
          /\ session_state'[s]["transcript"] = TranscriptText(tempWav)
          /\ session_state'[s]["answer"] = <<>>
          /\ Transcribed(s)']_vars

(* C5 as amended: a completed transcription stores the transcribed text    *)
(* and empties the answer; the session is then in Transcribed when the     *)
(* text is not empty and in Idle when it is.                               *)
C5_TranscriptionStoresText ==
    [][\A s \in Sessions : TranscriptionCompletes(s) =>
          /\ session_state'[s]["transcript"] = TranscriptText(tempWav)
          /\ session_state'[s]["answer"] = <<>>
          /\ IF TranscriptText(tempWav) # <<>>
             THEN Transcribed(s)' ELSE IdleState(s)']_vars

(* One session has transcribed its words, the other has just transcribed   *)
(* silence, after an agent was built for an earlier question.              *)
C5_Witness ==
    \E s, t \in Sessions :
        /\ s # t
        /\ Transcribed(s) /\ session_state[s]["transcript"] = <<s>>
        /\ IdleState(t) /\ pc[t] = "idle"
        /\ audio[t].len > 0 /\ audio[t].segs = <<>>
        /\ tempWav = [state |-> "wav", clip |-> audio[t]]
        /\ agentCache # {}

(* C6: when the agent call of an ask completes, the session is Answered.   *)
C6_AskEntersAnswered ==
    [][\A s \in Sessions : (pc[s] = "ask_call" /\ pc'[s] = "idle") =>
          Answered(s)']_vars

(* C7: when the agent call of a follow-up completes, the transcript is as  *)
(* before and the session is still Answered.                               *)
C7_FollowupStaysAnswered ==
    [][\A s \in Sessions : (pc[s] = "fu_call" /\ pc'[s] = "idle") =>
          /\ session_state'[s]["transcript"] = session_state[s]["transcript"]
          /\ Answered(s)']_vars

(* C9: without a credential no answer call is under way and no handler has *)
(* caught the configuration error and let its run complete.                *)
C9_MissingKeyStopsFlow ==
    ~Truthy(environ[KEY]) =>
        \A s \in Sessions : pc[s] \notin {"ask_call", "fu_call", "handled"}

(* C10: a session that holds an answer holds a transcript: it is in Idle,  *)
(* Transcribed or Answered.                                                *)
C10_AnswerImpliesTranscript ==
    \A s \in Sessions : Rendered(s) =>
        /\ session_state[s]["answer"] # <<>> => session_state[s]["transcript"] # <<>>
        /\ IdleState(s) \/ Transcribed(s) \/ Answered(s)

(* An answered session is transcribing again, with silence recorded.       *)
C10_Witness ==
    \E s \in Sessions :
        /\ Answered(s)
        /\ pc[s] = "tr_run"
        /\ tempWav.state = "wav" /\ tempWav.clip.segs = <<>>

====
